---- MODULE Spec2Model ----
(***************************************************************************)
(* Conversation memory of the travel assistant chatbot                     *)
(* (src/02-chatbot-memory/chatbot.py): token counting, trimming of the     *)
(* conversation to the context window, and the chat loop with its          *)
(* rollback of a failed turn.                                              *)
(*                                                                         *)
(* A message {"role": r, "content": c} is the record [role, len, tok]:     *)
(* len is len(c) in characters and tok is len(encoding.encode(c)), the     *)
(* number of cl100k_base tokens of c.  The encoder itself is an external   *)
(* library; the only facts used are that the empty text has no token and   *)
(* that a role name is one token.                                          *)
(***************************************************************************)
EXTENDS Integers, Sequences, FiniteSets, TLC

\* ------------------------------------------------------------ constants
MAX_CONTEXT_TOKENS == 4000
MAX_RESPONSE_TOKENS == 500
\* len(SYSTEM_PROMPT)
SystemPromptLen == 671
\* per-message framing tokens and the priming tokens of the reply
MessageOverhead == 4
PrimingTokens == 2
\* tokens of str(value) for the "role" key: "system", "user" and "assistant"
\* are single cl100k_base tokens
RoleTokens == 1
\* the divisor of the fallback estimate
FallbackDivisor == 4

\* --------------------------------------------------------------- bounds
\* turns and clears of one run of the chat loop
MaxTurns == 3
\* entries after the system entry in an input of the trimming harness
MaxHistory == 3
\* largest max_tokens - MAX_RESPONSE_TOKENS given to the trimming harness
MaxSlack == 30

VARIABLES
    conversation,  \* the list `conversation` of chat()
    system_prompt, \* the text SYSTEM_PROMPT
    encoderOk,     \* tiktoken.get_encoding("cl100k_base") succeeds in this run
    pc,            \* position of the control: see the actions
    trimIn,        \* argument `conversation` of the last trim_conversation_history call
    max_tokens,    \* argument `max_tokens` of that call
    before,        \* conversation right before the current turn's user message was appended
    pending,       \* the user message appended for the current turn
    sent,          \* the `messages` of the last chat.completions.create call
    calls,         \* chat.completions.create calls made so far
    removed,       \* what the last conversation.pop() of the except branch returned
    outcome,       \* how the last turn ended
    script,        \* the turns and clears so far, in order
    shown          \* what display_conversation_stats printed since the last turn or clear

vars == <<conversation, system_prompt, encoderOk, pc, trimIn, max_tokens, before, pending,
          sent, calls, removed, outcome, script, shown>>

\* ------------------------------------------------------------- messages
None == [role |-> "none", len |-> 0, tok |-> 0]

Msg(r, c) == [role |-> r, len |-> c.len, tok |-> c.tok]

\* The cl100k_base length of SYSTEM_PROMPT is a fact of the encoder: between
\* five and four characters per token for this English text.
SystemPromptTexts ==
    { [len |-> SystemPromptLen, tok |-> SystemPromptLen \div 5],
      [len |-> SystemPromptLen, tok |-> SystemPromptLen \div 4] }

\* input("You: ").strip(), not empty and no command
UserTexts ==
    { [len |-> 3, tok |-> 1],
      [len |-> 9000, tok |-> 2000],
      [len |-> 16000, tok |-> 4000] }

\* response.choices[0].message.content, at most MAX_RESPONSE_TOKENS tokens
AssistantTexts ==
    { [len |-> 40, tok |-> 10],
      [len |-> 2000, tok |-> MAX_RESPONSE_TOKENS] }

\* ------------------------------------------------------------ sequences
RECURSIVE SumSeq(_)
SumSeq(s) == IF s = <<>> THEN 0 ELSE Head(s) + SumSeq(Tail(s))

\* list.pop(i), the list afterwards (i counted from 0)
PopAt(s, i) == SubSeq(s, 1, i) \o SubSeq(s, i + 2, Len(s))

\* list.pop(), the list afterwards
PopLast(s) == SubSeq(s, 1, Len(s) - 1)

IsSuffix(s, t) ==
    /\ Len(s) <= Len(t)
    /\ s = SubSeq(t, Len(t) - Len(s) + 1, Len(t))

\* --------------------------------------------------------- count_tokens
\* the heuristic of the except branch
FallbackCount(messages) ==
    SumSeq([i \in 1..Len(messages) |-> messages[i].len \div FallbackDivisor])

\* the tiktoken branch with `num_tokens = 4` for `num_tokens += 4`: only the
\* last message is counted
ExactCountLast(messages) ==
    IF messages = <<>>
    THEN PrimingTokens
    ELSE MessageOverhead + RoleTokens + messages[Len(messages)].tok
         + PrimingTokens

\* the tiktoken branch
ExactCount(messages) ==
    SumSeq([i \in 1..Len(messages) |->
               MessageOverhead + RoleTokens + messages[i].tok])
    + PrimingTokens

count_tokens(messages) ==
    IF encoderOk THEN ExactCount(messages) ELSE FallbackCount(messages)

\* ---------------------------------------------- trim_conversation_history
\* variants of the three steps of the loop, each with one slip
keep_trimming_two(conv) == Len(conv) > 2

fits_strict(conv, maxTokens) == count_tokens(conv) + MAX_RESPONSE_TOKENS < maxTokens

pop_first(conv) == PopAt(conv, 0)

pop_newest(conv) == PopLast(conv)

\* `removed = conversation[1]`: the entry is read and stays
pop_none(conv) == conv

\* line 118: the loop goes on while something follows the system message
keep_trimming(conv) == Len(conv) > 1

\* line 120: the conversation leaves room for the response
fits(conv, maxTokens) == count_tokens(conv) + MAX_RESPONSE_TOKENS <= maxTokens

\* line 123: conversation.pop(1)
pop_oldest(conv) == PopAt(conv, 1)

\* the loop with its test after the removal: pop, then check
RECURSIVE trim_do_while(_, _)
trim_do_while(conv, maxTokens) ==
    IF keep_trimming(conv)
    THEN IF fits(pop_oldest(conv), maxTokens)
         THEN pop_oldest(conv)
         ELSE trim_do_while(pop_oldest(conv), maxTokens)
    ELSE conv

RECURSIVE trim_conversation_history(_, _)
trim_conversation_history(conv, maxTokens) ==
    IF keep_trimming(conv)
    THEN IF fits(conv, maxTokens)
         THEN conv
         ELSE trim_conversation_history(pop_oldest(conv), maxTokens)
    ELSE conv

\* ------------------------------------------------------------- chat()
SystemMessage == Msg("system", system_prompt)

\* stats whose last number is net of the tokens reserved for the response
stats_net_of_reserve(conv) ==
    [message_count |-> Len(conv) - 1,
     token_count |-> count_tokens(conv),
     available |-> MAX_CONTEXT_TOKENS - MAX_RESPONSE_TOKENS - count_tokens(conv)]

\* display_conversation_stats(conversation), the three printed numbers
display_conversation_stats(conv) ==
    [message_count |-> Len(conv) - 1,
     token_count |-> count_tokens(conv),
     available |-> MAX_CONTEXT_TOKENS - count_tokens(conv)]

\* one entry of `script`: a turn with its user message and the reply received,
\* or a clear
Turn(k, u, r) == [kind |-> k, user |-> u, reply |-> r]

NoStats == [message_count |-> 0, token_count |-> 0, available |-> 0]

Init ==
    /\ system_prompt \in SystemPromptTexts
    /\ conversation = <<SystemMessage>>
    /\ encoderOk \in BOOLEAN
    /\ pc = "greeting"
    /\ trimIn = <<>>
    /\ max_tokens = 0
    /\ before = <<>>
    /\ pending = None
    /\ sent = <<>>
    /\ calls = 0
    /\ removed = None
    /\ outcome = "none"
    /\ script = <<>>
    /\ shown = NoStats

\* lines 172-180: the greeting call succeeds and the greeting is appended
Greeting(a) ==
    /\ pc = "greeting"
    /\ calls' = calls + 1
    /\ sent' = conversation
    /\ conversation' = Append(conversation, Msg("assistant", a))
    /\ pc' = "idle"
    /\ UNCHANGED <<system_prompt, encoderOk, trimIn, max_tokens, before,
                   pending, removed, outcome, script, shown>>

\* lines 172-177: the greeting call raises outside any try: chat() is left
GreetingFails ==
    /\ pc = "greeting"
    /\ calls' = calls + 1
    /\ sent' = conversation
    /\ pc' = "crashed"
    /\ UNCHANGED <<conversation, system_prompt, encoderOk, trimIn, max_tokens,
                   before, pending, removed, outcome, script, shown>>

\* lines 188-191: an empty line
EmptyInput ==
    /\ pc = "idle"
    /\ UNCHANGED vars

\* lines 194-196
Quit ==
    /\ pc = "idle"
    /\ pc' = "quit"
    /\ UNCHANGED <<conversation, system_prompt, encoderOk, calls, trimIn, max_tokens,
                   before, pending, sent, removed, outcome, script, shown>>

\* a clear that forgets the system prompt
ClearAll ==
    /\ pc = "idle"
    /\ Len(script) < MaxTurns
    /\ conversation' = <<>>
    /\ script' = Append(script, Turn("clear", None, None))
    /\ outcome' = "none"
    /\ shown' = NoStats
    /\ UNCHANGED <<system_prompt, encoderOk, calls, pc, trimIn, max_tokens, before,
                   pending, sent, removed>>

\* lines 198-203
Clear ==
    /\ pc = "idle"
    /\ Len(script) < MaxTurns
    /\ conversation' = <<SystemMessage>>
    /\ script' = Append(script, Turn("clear", None, None))
    /\ outcome' = "none"
    /\ shown' = NoStats
    /\ UNCHANGED <<system_prompt, encoderOk, calls, pc, trimIn, max_tokens, before,
                   pending, sent, removed>>

\* stats without its `continue`: the line goes on as a user message
StatsFallsThrough ==
    /\ pc = "idle"
    /\ Len(script) < MaxTurns
    /\ shown' = display_conversation_stats(conversation)
    /\ before' = conversation
    /\ pending' = Msg("user", [len |-> 5, tok |-> 1])
    /\ trimIn' = Append(conversation, pending')
    /\ max_tokens' = MAX_CONTEXT_TOKENS
    /\ conversation' = trim_conversation_history(trimIn', MAX_CONTEXT_TOKENS)
    /\ calls' = calls + 1
    /\ sent' = conversation'
    /\ pc' = "sending"
    /\ UNCHANGED <<system_prompt, encoderOk, removed, outcome, script>>

\* lines 205-207
Stats ==
    /\ pc = "idle"
    /\ shown' = display_conversation_stats(conversation)
    /\ UNCHANGED <<conversation, system_prompt, encoderOk, calls, pc, trimIn,
                   max_tokens, before, pending, sent, removed, outcome, script>>

\* lines 215-238: the user message is appended, the conversation trimmed and
\* the request issued with the trimmed conversation
NewTurn(x) ==
    /\ pc = "idle"
    /\ Len(script) < MaxTurns
    /\ before' = conversation
    /\ pending' = Msg("user", x)
    /\ trimIn' = Append(conversation, Msg("user", x))
    /\ max_tokens' = MAX_CONTEXT_TOKENS
    /\ conversation' = trim_conversation_history(
                           Append(conversation, Msg("user", x)), MAX_CONTEXT_TOKENS)
    /\ calls' = calls + 1
    /\ sent' = conversation'
    /\ pc' = "sending"
    /\ shown' = NoStats
    /\ UNCHANGED <<system_prompt, encoderOk, removed, outcome, script>>

\* lines 247-256: the call returned and nothing after it raised
ModelReplies(a) ==
    /\ pc = "sending"
    /\ conversation' = Append(conversation, Msg("assistant", a))
    /\ removed' = None
    /\ outcome' = "ok"
    /\ script' = Append(script, Turn("ok", pending, Msg("assistant", a)))
    /\ pc' = "idle"
    /\ UNCHANGED <<system_prompt, encoderOk, calls, trimIn, max_tokens, before,
                   pending, sent, shown>>

\* a failed call that is made once more before the turn is given up
ModelCallFailsRetried ==
    /\ pc = "sending"
    /\ removed' = conversation[Len(conversation)]
    /\ conversation' = PopLast(conversation)
    /\ pc' = "idle"
    /\ calls' = calls + 1
    /\ outcome' = "call_failed"
    /\ script' = Append(script, Turn("fail", pending, None))
    /\ UNCHANGED <<system_prompt, encoderOk, trimIn, max_tokens, before,
                   pending, sent, shown>>

\* lines 233-247 raise (the call, or reading choices[0] of its response),
\* then lines 258-261: conversation.pop().  pop() of an empty list raises
\* IndexError inside the handler and chat() is left.
ModelCallFails ==
    /\ pc = "sending"
    /\ IF conversation = <<>>
       THEN /\ pc' = "crashed"
            /\ UNCHANGED <<conversation, removed>>
       ELSE /\ removed' = conversation[Len(conversation)]
            /\ conversation' = PopLast(conversation)
            /\ pc' = "idle"
    /\ outcome' = "call_failed"
    /\ script' = Append(script, Turn("fail", pending, None))
    /\ UNCHANGED <<system_prompt, encoderOk, calls, trimIn, max_tokens, before,
                   pending, sent, shown>>

\* line 248 appended the reply, then a statement of lines 250-256 raises (print
\* to a closed or non-UTF-8 stdout, reading response.usage), then lines 258-261
ReplyThenFails(a) ==
    /\ pc = "sending"
    /\ removed' = Msg("assistant", a)
    /\ conversation' = PopLast(Append(conversation, Msg("assistant", a)))
    /\ outcome' = "print_failed"
    /\ script' = Append(script, Turn("fail", pending, Msg("assistant", a)))
    /\ pc' = "idle"
    /\ UNCHANGED <<system_prompt, encoderOk, calls, trimIn, max_tokens, before,
                   pending, sent, shown>>

\* KeyboardInterrupt during the call is no Exception: line 258 does not catch
\* it and chat() is left with the conversation as it is
Interrupt ==
    /\ pc = "sending"
    /\ pc' = "interrupted"
    /\ outcome' = "interrupted"
    /\ UNCHANGED <<conversation, system_prompt, encoderOk, calls, trimIn, max_tokens,
                   before, pending, sent, removed, script, shown>>

Next ==
    \/ \E a \in AssistantTexts : Greeting(a)
    \/ GreetingFails
    \/ EmptyInput
    \/ Quit
    \/ Clear
    \/ Stats
    \/ \E x \in UserTexts : NewTurn(x)
    \/ \E a \in AssistantTexts : ModelReplies(a)
    \/ ModelCallFails
    \/ \E a \in AssistantTexts : ReplyThenFails(a)
    \/ Interrupt

Spec == Init /\ [][Next]_vars

\* ------------------------------------------- trim_conversation_history,
\* called with any conversation that starts with a system message and any
\* max_tokens
TrimSystemTexts == { [len |-> 4, tok |-> 1], [len |-> 200, tok |-> 40] }

TrimTexts == { [len |-> 3, tok |-> 1], [len |-> 40, tok |-> 10] }

TrimEntries == { Msg(r, c) : r \in {"user", "assistant"}, c \in TrimTexts }

TrimBudgets == { MAX_RESPONSE_TOKENS + k : k \in 0..MaxSlack }

TrimInit ==
    /\ system_prompt \in TrimSystemTexts
    /\ conversation = <<SystemMessage>>
    /\ encoderOk \in BOOLEAN
    /\ pc = "ready"
    /\ trimIn = <<>>
    /\ max_tokens = 0
    /\ before = <<>>
    /\ pending = None
    /\ sent = <<>>
    /\ calls = 0
    /\ removed = None
    /\ outcome = "none"
    /\ script = <<>>
    /\ shown = NoStats

\* conversation.append(entry) by the caller
AppendEntry(e) ==
    /\ Len(conversation) <= MaxHistory
    /\ conversation' = Append(conversation, e)
    /\ pc' = "ready"
    /\ trimIn' = <<>>
    /\ max_tokens' = 0
    /\ UNCHANGED <<system_prompt, encoderOk, calls, before, pending, sent, removed,
                   outcome, script, shown>>

\* conversation = trim_conversation_history(conversation, b)
TrimCall(b) ==
    /\ trimIn' = conversation
    /\ max_tokens' = b
    /\ conversation' = trim_conversation_history(conversation, b)
    /\ pc' = "trimmed"
    /\ UNCHANGED <<system_prompt, encoderOk, calls, before, pending, sent, removed,
                   outcome, script, shown>>

TrimNext ==
    \/ \E e \in TrimEntries : AppendEntry(e)
    \/ \E b \in TrimBudgets : TrimCall(b)

TrimSpec == TrimInit /\ [][TrimNext]_vars

\* ------------------------------------------- trim_conversation_history,
\* one iteration of its loop at a time
LoopInit == TrimInit

\* the caller appends while no call is running
LoopAppend(e) ==
    /\ pc # "loop"
    /\ AppendEntry(e)

\* the call is made: line 118 is reached for the first time
LoopEnter(b) ==
    /\ pc # "loop"
    /\ trimIn' = conversation
    /\ max_tokens' = b
    /\ pc' = "loop"
    /\ UNCHANGED <<conversation, system_prompt, encoderOk, calls, before, pending,
                   sent, removed, outcome, script, shown>>

\* lines 118-124: the guard holds, the conversation does not fit, pop(1)
LoopIterate ==
    /\ pc = "loop"
    /\ keep_trimming(conversation)
    /\ ~fits(conversation, max_tokens)
    /\ conversation' = pop_oldest(conversation)
    /\ UNCHANGED <<system_prompt, encoderOk, calls, pc, trimIn, max_tokens, before,
                   pending, sent, removed, outcome, script, shown>>

\* line 118 false or line 121 break, then line 126
LoopReturn ==
    /\ pc = "loop"
    /\ ~keep_trimming(conversation) \/ fits(conversation, max_tokens)
    /\ pc' = "returned"
    /\ UNCHANGED <<conversation, system_prompt, encoderOk, calls, trimIn, max_tokens,
                   before, pending, sent, removed, outcome, script, shown>>

LoopNext ==
    \/ \E e \in TrimEntries : LoopAppend(e)
    \/ \E b \in TrimBudgets : LoopEnter(b)
    \/ LoopIterate
    \/ LoopReturn

\* a call that has started keeps running: the loop is plain sequential code
LoopSpec ==
    /\ LoopInit
    /\ [][LoopNext]_vars
    /\ WF_vars(LoopIterate)
    /\ WF_vars(LoopReturn)

\* ------------------------------------------------ properties of trimming
\* max_context_tokens - reserved_response_tokens of the last call
effective_limit == max_tokens - MAX_RESPONSE_TOKENS

\* the history part of a conversation
History(conv) == IF conv = <<>> THEN <<>> ELSE Tail(conv)

\* the call has returned and removed n entries
Removed == Len(trimIn) - Len(conversation)

\* the budget of the last call cannot hold the system message alone
Unsatisfiable == count_tokens(<<trimIn[1]>>) > effective_limit

\* C1: when trim_conversation_history has returned, the token count of the
\* whole resulting conversation is at most max_tokens - MAX_RESPONSE_TOKENS.
BudgetSatisfied ==
    pc = "trimmed" => count_tokens(conversation) <= effective_limit

\* C2: a call whose budget cannot hold the system message alone does not
\* return normally (it raises BudgetUnsatisfiableError instead).
UnsatisfiableBudgetRaises ==
    (trimIn # <<>> /\ Unsatisfiable) => pc = "budget_unsatisfiable"

SystemEntryPermanent ==
    /\ Len(conversation) >= 1
    /\ conversation[1] = SystemMessage
    /\ pc = "trimmed" => conversation[1] = trimIn[1]

SystemEntryWitness ==
    /\ pc = "trimmed"
    /\ Removed >= 1
    /\ Unsatisfiable
    /\ conversation = <<SystemMessage>>

\* C8: after a call the surviving history is a suffix of the history before
\* the call: entries leave from the front only, the order of the others is
\* kept.
SurvivorsAreSuffix ==
    pc = "trimmed" => IsSuffix(History(conversation), History(trimIn))

SurvivorsWitness ==
    /\ pc = "trimmed"
    /\ Removed >= 1
    /\ Len(conversation) >= 3
    /\ conversation[2] # conversation[3]

\* the conversation of the last call with only its n oldest history entries
\* removed
WithoutOldest(n) == <<trimIn[1]>> \o SubSeq(trimIn, n + 2, Len(trimIn))

\* what one entry adds to the count
EntryCost(e) == count_tokens(<<e>>) - count_tokens(<<>>)

\* C9: a call removes the shortest prefix of the history that makes the
\* conversation fit: nothing when it fits already, and otherwise no shorter
\* prefix would do, so that with the last removed entry put back the count
\* exceeds the limit (the final count is above the limit minus that entry's
\* cost).
MinimalEviction ==
    pc = "trimmed" =>
        /\ count_tokens(trimIn) <= effective_limit => conversation = trimIn
        /\ conversation = WithoutOldest(Removed)
        /\ \A n \in 0..(Removed - 1) :
               count_tokens(WithoutOldest(n)) > effective_limit
        /\ Removed >= 1 =>
               count_tokens(conversation)
                   > effective_limit - EntryCost(trimIn[Removed + 1])

MinimalEvictionWitness ==
    /\ pc = "trimmed"
    /\ Removed >= 1
    /\ Len(conversation) >= 2
    /\ count_tokens(conversation) <= effective_limit

\* ------------------------------------------------ properties of chat()
\* the last turn has just ended with the except branch
TurnFailed == pc = "idle" /\ outcome \in {"call_failed", "print_failed"}

\* C5: every message list handed to the model starts with the system message
\* and holds exactly one system message.
SentStartsWithSystem ==
    sent # <<>> =>
        /\ sent[1] = SystemMessage
        /\ Cardinality({i \in DOMAIN sent : sent[i].role = "system"}) = 1

\* C6: after a turn whose model call failed, the conversation is the one
\* right before the turn's user message was appended.
RollbackExact ==
    (pc = "idle" /\ outcome = "call_failed") => conversation = before

\* C7: the entry removed by the rollback of a failed turn is the user message
\* appended for that turn.
RollbackRemovesUserMessage == TurnFailed => removed = pending

\* a fresh session, then a successful, a failed and a successful turn
ScenarioCRun ==
    /\ pc = "idle"
    /\ Len(script) = 3
    /\ script[1].kind = "ok"
    /\ script[2].kind = "fail"
    /\ script[3].kind = "ok"

\* C10: after a successful, a failed and a successful turn of a fresh session
\* the history is the two pairs of the successful turns, in turn order, and
\* nothing of the failed turn (the greeting of the session may precede them).
ScenarioC ==
    ScenarioCRun =>
        LET pairs == <<script[1].user, script[1].reply,
                       script[3].user, script[3].reply>>
        IN  \/ conversation = <<SystemMessage>> \o pairs
            \/ \E g \in AssistantTexts :
                   conversation = <<SystemMessage, Msg("assistant", g)>> \o pairs

\* the last command was `clear`
JustCleared ==
    /\ pc = "idle"
    /\ script # <<>>
    /\ script[Len(script)].kind = "clear"

\* C11: after clear, from whatever state, the conversation is the system
\* message alone, with the original text, and stats reports no message and
\* the token count of the system message alone.
ClearResets ==
    JustCleared =>
        /\ conversation = <<Msg("system", system_prompt)>>
        /\ display_conversation_stats(conversation).message_count = 0
        /\ display_conversation_stats(conversation).token_count
               = count_tokens(<<Msg("system", system_prompt)>>)

\* clear after a failed turn that had removed the system message, then stats
ClearResetsWitness ==
    /\ JustCleared
    /\ Len(script) >= 2
    /\ script[Len(script) - 1].kind = "fail"
    /\ removed.role = "system"
    /\ shown.message_count = 0
    /\ shown.token_count = count_tokens(<<Msg("system", system_prompt)>>)

\* stats has printed something
StatsShown == shown # NoStats

\* C12, as stated: the availability that stats reports is the effective limit
\* (MAX_CONTEXT_TOKENS - MAX_RESPONSE_TOKENS) minus the reported token count.
StatsAvailableNetOfReserve ==
    StatsShown =>
        shown.available
            = (MAX_CONTEXT_TOKENS - MAX_RESPONSE_TOKENS) - shown.token_count

\* C12, amended: the availability that stats reports is MAX_CONTEXT_TOKENS
\* minus the reported token count: it is not net of the tokens reserved for
\* the response.
StatsAvailableOfContext ==
    StatsShown => shown.available = MAX_CONTEXT_TOKENS - shown.token_count

StatsAvailableWitness ==
    /\ StatsShown
    /\ pc = "idle"
    /\ shown = display_conversation_stats(conversation)
    /\ shown.message_count >= 3

\* ------------------------------------------- properties of count_tokens
\* the first n messages of the conversation
Prefix(n) == SubSeq(conversation, 1, n)

\* C13: appending an entry to a message sequence never lowers its count, and
\* no count is negative, with tiktoken and with the fallback.
CountMonotonic ==
    /\ \A n \in 0..Len(conversation) : count_tokens(Prefix(n)) >= 0
    /\ \A n \in 0..(Len(conversation) - 1) :
           count_tokens(Prefix(n + 1)) >= count_tokens(Prefix(n))
    /\ \A e \in TrimEntries :
           count_tokens(Append(conversation, e)) >= count_tokens(conversation)

\* with tiktoken, a cheap entry appended after a dearer one
CountMonotonicWitness ==
    /\ encoderOk
    /\ Len(conversation) >= 3
    /\ conversation[Len(conversation)].tok < conversation[Len(conversation) - 1].tok
    /\ count_tokens(conversation) > count_tokens(Prefix(Len(conversation) - 1))

\* C14: without tiktoken, the count of a sequence is positive as soon as one
\* of its entries has content, however short (length over a constant plus a
\* per-entry overhead).
FallbackPositive ==
    ~encoderOk =>
        \A i \in DOMAIN conversation :
            conversation[i].len > 0 => count_tokens(<<conversation[i]>>) > 0

\* --------------------------------------------- properties of the loop
\* C15: every call of trim_conversation_history returns, after at most as
\* many removals as the history had entries, whatever the budget.
TrimTerminates ==
    /\ [](pc \in {"loop", "returned"} =>
              /\ Removed >= 0
              /\ Removed <= Len(History(trimIn)))
    /\ [](pc = "loop" => <>(pc = "returned"))

\* a call with a budget that nothing satisfies has returned after removing
\* the whole history
TrimTerminatesWitness ==
    /\ pc = "returned"
    /\ Unsatisfiable
    /\ Len(trimIn) >= 3
    /\ Removed = Len(History(trimIn))

\* the loop, run to its end, computes trim_conversation_history
LoopIsTrim ==
    pc = "returned" =>
        conversation = trim_conversation_history(trimIn, max_tokens)

\* ------------------------------------------------ properties of a turn
\* C16: when a turn has ended with the model's reply, the last two entries of
\* the conversation are the turn's user message and that reply.
TurnCommitsPair ==
    (pc = "idle" /\ outcome = "ok") =>
        /\ Len(conversation) >= 3
        /\ conversation[Len(conversation) - 1] = pending
        /\ conversation[Len(conversation)] = script[Len(script)].reply

\* C17: a turn that was started ends in the input loop, whatever the outcome
\* of the call (the loop then reads the next line), and after every outcome
\* but success the conversation is the one sent without the turn's user
\* message.
TurnReturnsToIdle ==
    /\ outcome # "none" => pc \in {"idle", "sending", "quit"}
    /\ TurnFailed => Append(conversation, pending) = sent

\* the turns of the script, clears left out
RECURSIVE TurnsIn(_)
TurnsIn(sc) ==
    IF sc = <<>> THEN 0
    ELSE (IF Head(sc).kind = "clear" THEN 0 ELSE 1) + TurnsIn(Tail(sc))

\* C18: the model is called once per turn (and once for the greeting): the
\* call is made with the conversation as it is after the user message was
\* appended and the conversation trimmed, and a failed call is not made again.
OneCallPerTurn ==
    /\ pc \in {"idle", "quit"} => calls = 1 + TurnsIn(script)
    /\ pc \in {"sending", "interrupted"} => calls = 2 + TurnsIn(script)
    /\ pc = "sending" =>
           /\ sent = conversation
           /\ sent = trim_conversation_history(Append(before, pending),
                                               MAX_CONTEXT_TOKENS)

\* two turns ended, the last one by a failed call
OneCallPerTurnWitness ==
    /\ pc = "idle"
    /\ outcome = "call_failed"
    /\ TurnsIn(script) = 2
    /\ calls = 3

\* C19: trim_conversation_history leaves a conversation that fits as it is,
\* and its result is a fixed point: trimmed again with the same max_tokens
\* it loses nothing more.
TrimIdempotent ==
    pc = "trimmed" =>
        /\ count_tokens(trimIn) <= effective_limit => conversation = trimIn
        /\ trim_conversation_history(conversation, max_tokens) = conversation

\* a call that removed entries and left at least two
TrimIdempotentWitness ==
    /\ pc = "trimmed"
    /\ Removed >= 1
    /\ Len(conversation) >= 3
    /\ trim_conversation_history(conversation, max_tokens) = conversation

\* C20: the stats command and an empty line change neither the conversation
\* nor what was trimmed or sent, make no call and stay in the input loop; a
\* turn is started by a user message only.
StatsAndEmptyLineInert ==
    [][/\ (Stats \/ EmptyInput) =>
              UNCHANGED <<conversation, trimIn, sent, calls, pc, script>>
       /\ (pc = "idle" /\ pc' = "sending") => \E x \in UserTexts : NewTurn(x)
      ]_vars

\* stats printed for the conversation as it is after an answered turn
StatsAndEmptyLineWitness ==
    /\ pc = "idle"
    /\ outcome = "ok"
    /\ StatsShown
    /\ shown = display_conversation_stats(conversation)
    /\ calls = 1 + TurnsIn(script)
====
